---- MODULE Spec2Model ----
(***************************************************************************)
(* Model of the campus navigation service (src/app.py).                    *)
(*                                                                         *)
(* Shared state, set once at import time: the walking network G, the       *)
(* building and entrance tables and their metric projections.              *)
(* Per request: the locals of navigate() and the position of the handler.  *)
(*                                                                         *)
(* Conventions.  A shapely Point is a record [x |-> lon, y |-> lat].       *)
(* A LineString is the sequence of its coordinates, each <<lon, lat>>.     *)
(* An entry of route_coords is <<lat, lon>>, as navigate() builds it.      *)
(* Coordinates are integers; the projection to EPSG:3857 is a scaling by   *)
(* ten metres per coordinate unit.  Distances are compared squared, which  *)
(* keeps the order and the threshold test of the code exact.              *)
(***************************************************************************)
EXTENDS Integers, Sequences, FiniteSets, TLC

\* ---- bounds of the model -------------------------------------------------
NumNodes == 3          \* nodes of the walking network
MaxEntrances == 2      \* rows of the entrance table
MaxKey == 1            \* largest key of a parallel edge
NumRequests == 2       \* concurrent navigate requests (SpecConc)

VARIABLES G, buildings_gdf, entrances_gdf, buildings_proj, entrances_proj,
          pc, start_name, end_name, orig_point, dest_point,
          orig_node, dest_node, route, route_coords, response

shared == <<G, buildings_gdf, entrances_gdf, buildings_proj, entrances_proj>>
locals == <<start_name, end_name, orig_point, dest_point,
            orig_node, dest_node, route, route_coords, response>>
vars == <<shared, pc, locals>>

\* ---- values --------------------------------------------------------------
Nodes == 1..NumNodes
NoPoint == [x |-> 0, y |-> 0]          \* a local not yet assigned
NoNode == 0
NoMap == [polyline |-> <<>>, markers |-> <<>>]
NoResponse == [status |-> 0, error |-> "", map_html |-> NoMap]

\* request identifiers a client may send; "Z" names no building
RequestNames == {"A", "B", "Z"}

\* ---- the data the service is started on ----------------------------------
\* Node n lies at latitude 20, longitude 18 + 2n: in units of half a degree
\* these are the nodes 1:(10,10), 2:(10,11), 3:(10,12) of spec section 8, and
\* MidCoord(2, 3) is its curve coordinate (10,10.5).
NodeData == [n \in Nodes |-> [x |-> 18 + 2 * n, y |-> 20]]

\* candidate stored curves of a street between u and v: the full line from
\* u to v, the full line stored from v to u, and the intermediate coordinate
\* alone (the data model of spec section 3)
CoordOf(n) == <<NodeData[n].x, NodeData[n].y>>
MidCoord(u, v) == <<NodeData[u].x - 1, NodeData[u].y>>
GeometryPool(u, v) ==
    { <<CoordOf(u), MidCoord(u, v), CoordOf(v)>>,
      <<CoordOf(v), MidCoord(u, v), CoordOf(u)>>,
      <<MidCoord(u, v)>> }

LengthPool == {1, 3}

PlainData == {[length |-> l] : l \in LengthPool}
CurvedData(u, v) ==
    {[length |-> l, geometry |-> g] : l \in LengthPool, g \in GeometryPool(u, v)}
ForwardCurvedData(u, v) ==
    {[length |-> l, geometry |-> <<CoordOf(u), MidCoord(u, v), CoordOf(v)>>] :
        l \in LengthPool}

\* streets that may exist: consecutive nodes, and the chord 1 -- NumNodes
LastPair == <<NumNodes - 1, NumNodes>>
Chord == <<1, NumNodes>>
PairPool == {<<n, n + 1>> : n \in 1..(NumNodes - 1)} \cup {Chord}

RECURSIVE KeyDictsUpTo(_, _)
\* the dictionaries key -> edge data with keys 0..k; key j is index j + 1
KeyDictsUpTo(p, k) ==
    IF k = 0
    THEN {<<d>> : d \in PlainData \cup CurvedData(p[1], p[2])}
    ELSE {Append(s, d) : s \in KeyDictsUpTo(p, k - 1),
                         d \in PlainData \cup ForwardCurvedData(p[1], p[2])}

\* <<>> is "no edge between the pair"
KeyDicts(p) ==
    {<<>>} \cup
    IF p = Chord /\ p # LastPair THEN {<<d>> : d \in PlainData}
    ELSE IF p = LastPair THEN UNION {KeyDictsUpTo(p, k) : k \in 0..MaxKey}
    ELSE KeyDictsUpTo(p, 0)

RECURSIVE StreetMaps(_)
StreetMaps(S) ==
    IF S = {} THEN {<<>>}
    ELSE LET p == CHOOSE q \in S : TRUE
         IN {(p :> d) @@ f : f \in StreetMaps(S \ {p}), d \in KeyDicts(p)}

RECURSIVE Reverse(_)
Reverse(s) == IF s = <<>> THEN <<>> ELSE Append(Reverse(Tail(s)), Head(s))

\* the edge v -> u of a street u -- v carries the street's data with the
\* curve in the opposite order
ReverseData(d) ==
    IF "geometry" \in DOMAIN d
    THEN [length |-> d.length, geometry |-> Reverse(d.geometry)]
    ELSE d

\* a walking network: every street is an edge in both directions
NetworkOf(f) ==
    [nodes |-> NodeData,
     adj |-> [q \in {<<u, v>> \in Nodes \X Nodes : <<u, v>> \in PairPool \/ <<v, u>> \in PairPool} |->
                IF q \in PairPool THEN f[q]
                ELSE [k \in DOMAIN f[<<q[2], q[1]>>] |-> ReverseData(f[<<q[2], q[1]>>][k])]]]

Networks == {NetworkOf(f) : f \in StreetMaps(PairPool)}

\* the straight line of plain streets over consecutive nodes, chord absent
PlainLine ==
    NetworkOf([p \in PairPool |-> IF p = Chord /\ p # LastPair THEN <<>> ELSE <<[length |-> 1]>>])

\* buildings: axis-parallel rectangles; "A" around node 1, "B" around the last node
Rect(cx, cy) == [minx |-> cx - 1, miny |-> cy - 1, maxx |-> cx + 1, maxy |-> cy + 1]
BuildingTable ==
    << [name |-> "A", geometry |-> Rect(NodeData[1].x, NodeData[1].y)],
       [name |-> "B", geometry |-> Rect(NodeData[NumNodes].x, NodeData[NumNodes].y)] >>

\* entrances: points 50 m, 60 m and 70 m east of building "A" when NumNodes = 3
EntrancePool == {[x |-> NodeData[1].x + 1 + d, y |-> NodeData[1].y] : d \in 5..7}
RECURSIVE TablesOfLen(_)
TablesOfLen(n) ==
    IF n = 0 THEN {<<>>}
    ELSE {Append(t, [geometry |-> e]) : t \in TablesOfLen(n - 1), e \in EntrancePool}
EntranceTables == UNION {TablesOfLen(n) : n \in 0..MaxEntrances}
\* no entrance at all, or the single entrance 50 m east of "A"
BaseEntranceTables ==
    {t \in EntranceTables : Len(t) = 0 \/ (Len(t) = 1 /\ t[1].geometry.x = NodeData[1].x + 6)}

\* ---- geometry helpers (geopandas / shapely) ------------------------------
\* to_crs(epsg=3857): coordinate units to metres
to_crs_point(pt) == [x |-> pt.x * 10, y |-> pt.y * 10]
to_crs_polygon(g) ==
    [minx |-> g.minx * 10, miny |-> g.miny * 10, maxx |-> g.maxx * 10, maxy |-> g.maxy * 10]

\* b_row.geometry.centroid
centroid(g) == [x |-> (g.minx + g.maxx) \div 2, y |-> (g.miny + g.maxy) \div 2]

Max2(a, b) == IF a >= b THEN a ELSE b
\* square of the distance between a point and a polygon (0 inside it)
distance_sq(pt, g) ==
    LET dx == Max2(Max2(g.minx - pt.x, pt.x - g.maxx), 0)
        dy == Max2(Max2(g.miny - pt.y, pt.y - g.maxy), 0)
    IN dx * dx + dy * dy

\* (variant: the name filter is not applied)
rows_unfiltered(table, name) == table

\* rows of a table whose name column equals the given name, in table order
rows_named(table, name) == SelectSeq(table, LAMBDA row : row.name = name)

\* Series.min() and Series.idxmin(): the least value and its first label
series_min(ser) == CHOOSE m \in {ser[i] : i \in DOMAIN ser} : \A i \in DOMAIN ser : m <= ser[i]
series_idxmin(ser) ==
    CHOOSE i \in DOMAIN ser : ser[i] = series_min(ser) /\ \A j \in DOMAIN ser : ser[j] = ser[i] => i <= j

\* (variant: the comparison written min_dist <= 60)
under_threshold_inclusive(min_dist_sq) == min_dist_sq <= 60 * 60

\* min_dist < 60, on squared distances
under_threshold(min_dist_sq) == min_dist_sq < 60 * 60

\* ---- get_location_point ---------------------------------------------------
\* buildings_gdf[...].iloc[0] raises IndexError when no row has the name
raises_IndexError(building_name) == rows_named(buildings_gdf, building_name) = <<>>

entrance_distances(building_name) ==
    LET b_geom_proj == Head(rows_named(buildings_proj, building_name)).geometry
    IN [i \in DOMAIN entrances_proj |-> distance_sq(entrances_proj[i].geometry, b_geom_proj)]

get_location_point(building_name) ==
    LET b_row == Head(rows_named(buildings_gdf, building_name))
        target_point == centroid(b_row.geometry)
        distances == entrance_distances(building_name)
        min_dist == series_min(distances)
        closest_idx == series_idxmin(distances)
    IN IF entrances_proj # <<>> /\ under_threshold(min_dist)
       THEN entrances_gdf[closest_idx].geometry
       ELSE target_point

\* ---- ox.nearest_nodes -----------------------------------------------------
node_dist_sq(n, X, Y) ==
    (G.nodes[n].x - X) * (G.nodes[n].x - X) + (G.nodes[n].y - Y) * (G.nodes[n].y - Y)
nearest_nodes(X, Y) ==
    CHOOSE n \in DOMAIN G.nodes :
        \A m \in DOMAIN G.nodes :
            node_dist_sq(n, X, Y) < node_dist_sq(m, X, Y)
            \/ (node_dist_sq(n, X, Y) = node_dist_sq(m, X, Y) /\ n <= m)

\* ---- nx.shortest_path(G, s, t, weight='length') ---------------------------
has_edge(u, v) == <<u, v>> \in DOMAIN G.adj /\ G.adj[<<u, v>>] # <<>>
get_edge_data(u, v) == G.adj[<<u, v>>]

\* (variant: the weight attribute is not found, every edge counts 1)
edge_weight_hops(u, v) == 1

\* the weight of a step in a multigraph: the least length among parallel edges
edge_weight(u, v) ==
    LET d == get_edge_data(u, v)
    IN CHOOSE w \in {d[k].length : k \in DOMAIN d} : \A k \in DOMAIN d : w <= d[k].length

successors(u) == {v \in DOMAIN G.nodes : has_edge(u, v)}

RECURSIVE dijkstra(_, _, _)
\* dist, paths: functions over the nodes discovered so far; done: settled nodes
dijkstra(dist, paths, done) ==
    LET fringe == DOMAIN dist \ done
    IN IF fringe = {} THEN paths
       ELSE LET u == CHOOSE n \in fringe :
                        \A m \in fringe : dist[n] < dist[m] \/ (dist[n] = dist[m] /\ n <= m)
                better == {v \in successors(u) \ done :
                              v \notin DOMAIN dist \/ dist[u] + edge_weight(u, v) < dist[v]}
                dist2 == [v \in DOMAIN dist \cup better |->
                            IF v \in better THEN dist[u] + edge_weight(u, v) ELSE dist[v]]
                paths2 == [v \in DOMAIN dist \cup better |->
                            IF v \in better THEN Append(paths[u], v) ELSE paths[v]]
            IN dijkstra(dist2, paths2, done \cup {u})

paths_from(source) == dijkstra((source :> 0), (source :> <<source>>), {})

\* (variant: a search that finds no path from a node to itself)
raises_NetworkXNoPath_trivial(source, target) ==
    source = target \/ target \notin DOMAIN paths_from(source)

raises_NetworkXNoPath(source, target) == target \notin DOMAIN paths_from(source)
shortest_path(source, target) == paths_from(source)[target]

\* ---- step 4 of navigate: the route geometry -------------------------------
\* [(lat, lon) for lon, lat in edge_data['geometry'].coords]
geo_coords(geometry) == [i \in DOMAIN geometry |-> <<geometry[i][2], geometry[i][1]>>]

node_coord(n) == <<G.nodes[n].y, G.nodes[n].x>>

\* the edge data the loop reads for the step u -> v: G.get_edge_data(u, v)[0]
step_edge_data(u, v) == get_edge_data(u, v)[1]

\* what one iteration of the loop adds to route_coords
step_coords(u, v) ==
    LET edge_data == step_edge_data(u, v)
    IN IF "geometry" \in DOMAIN edge_data
       THEN geo_coords(edge_data.geometry)
       ELSE <<node_coord(v)>>

RECURSIVE extract_geometry(_, _, _)
\* the loop over zip(route[:-1], route[1:]), from position i on
extract_geometry(rt, i, coords) ==
    IF i >= Len(rt) THEN coords
    ELSE extract_geometry(rt, i + 1, coords \o step_coords(rt[i], rt[i + 1]))

stitched(rt) == extract_geometry(rt, 1, <<node_coord(rt[1])>>)

\* ---- create_map: what the response map draws ------------------------------
create_map(rt, start_point, end_point, coords) ==
    IF rt # <<>> /\ coords # <<>>
    THEN [polyline |-> coords,
          markers |-> <<<<start_point.y, start_point.x>>, <<end_point.y, end_point.x>>>>]
    ELSE NoMap

\* ---- initial states -------------------------------------------------------
Requests == DOMAIN pc

InitLocals(R) ==
    /\ pc = [r \in R |-> "idle"]
    /\ start_name = [r \in R |-> ""]
    /\ end_name = [r \in R |-> ""]
    /\ orig_point = [r \in R |-> NoPoint]
    /\ dest_point = [r \in R |-> NoPoint]
    /\ orig_node = [r \in R |-> NoNode]
    /\ dest_node = [r \in R |-> NoNode]
    /\ route = [r \in R |-> <<>>]
    /\ route_coords = [r \in R |-> <<>>]
    /\ response = [r \in R |-> NoResponse]

\* module import: lines 13-32
InitShared(networks, tables) ==
    /\ G \in networks
    /\ buildings_gdf = BuildingTable
    /\ entrances_gdf \in tables
    /\ entrances_proj = [i \in DOMAIN entrances_gdf |->
                            [geometry |-> to_crs_point(entrances_gdf[i].geometry)]]
    /\ buildings_proj = [i \in DOMAIN buildings_gdf |->
                            [name |-> buildings_gdf[i].name,
                             geometry |-> to_crs_polygon(buildings_gdf[i].geometry)]]

Init ==
    /\ \/ InitShared(Networks, BaseEntranceTables)
       \/ InitShared({PlainLine}, EntranceTables)
    /\ InitLocals({1})

\* ---- navigate -------------------------------------------------------------
\* request.get_json(), data.get(...)
Receive(r) ==
    /\ pc[r] = "idle"
    /\ \E s \in RequestNames, e \in RequestNames :
        /\ start_name' = [start_name EXCEPT ![r] = s]
        /\ end_name' = [end_name EXCEPT ![r] = e]
    /\ pc' = [pc EXCEPT ![r] = "check"]
    /\ UNCHANGED <<shared, orig_point, dest_point, orig_node, dest_node,
                   route, route_coords, response>>

\* (variant: the comparison made only once the name is known to be a building)
same_endpoint_after_lookup(s, e) == s = e /\ ~raises_IndexError(s)

\* start_name == end_name
same_endpoint(s, e) == s = e

\* if start_name == end_name: return error, 400
CheckSame(r) ==
    /\ pc[r] = "check"
    /\ IF same_endpoint(start_name[r], end_name[r])
       THEN /\ response' = [response EXCEPT ![r] =
                   [status |-> 400, error |-> "Start and Destination cannot be the same.",
                    map_html |-> NoMap]]
            /\ pc' = [pc EXCEPT ![r] = "done"]
       ELSE /\ pc' = [pc EXCEPT ![r] = "locate"]
            /\ UNCHANGED response
    /\ UNCHANGED <<shared, start_name, end_name, orig_point, dest_point,
                   orig_node, dest_node, route, route_coords>>

\* (variant: the status code is left out of the return, jsonify defaults to 200)
Raise_default_status(r, e) ==
    /\ response' = [response EXCEPT ![r] = [status |-> 200, error |-> e, map_html |-> NoMap]]
    /\ pc' = [pc EXCEPT ![r] = "done"]

\* except Exception as e: return jsonify({'error': str(e)}), 500
Raise(r, e) ==
    /\ response' = [response EXCEPT ![r] = [status |-> 500, error |-> e, map_html |-> NoMap]]
    /\ pc' = [pc EXCEPT ![r] = "done"]

\* 1. Find Best Locations
Locate(r) ==
    /\ pc[r] = "locate"
    /\ IF raises_IndexError(start_name[r])
       THEN /\ Raise(r, "IndexError")
            /\ UNCHANGED <<orig_point, dest_point>>
       ELSE /\ orig_point' = [orig_point EXCEPT ![r] = get_location_point(start_name[r])]
            /\ IF raises_IndexError(end_name[r])
               THEN /\ Raise(r, "IndexError")
                    /\ UNCHANGED dest_point
               ELSE /\ dest_point' = [dest_point EXCEPT ![r] = get_location_point(end_name[r])]
                    /\ pc' = [pc EXCEPT ![r] = "snap"]
                    /\ UNCHANGED response
    /\ UNCHANGED <<shared, start_name, end_name, orig_node, dest_node, route, route_coords>>

\* 2. Find Nearest Network Nodes
Snap(r) ==
    /\ pc[r] = "snap"
    /\ orig_node' = [orig_node EXCEPT ![r] = nearest_nodes(orig_point[r].x, orig_point[r].y)]
    /\ dest_node' = [dest_node EXCEPT ![r] = nearest_nodes(dest_point[r].x, dest_point[r].y)]
    /\ pc' = [pc EXCEPT ![r] = "path"]
    /\ UNCHANGED <<shared, start_name, end_name, orig_point, dest_point,
                   route, route_coords, response>>

\* 3. Calculate Path
Path(r) ==
    /\ pc[r] = "path"
    /\ IF raises_NetworkXNoPath(orig_node[r], dest_node[r])
       THEN /\ Raise(r, "NetworkXNoPath")
            /\ UNCHANGED route
       ELSE /\ route' = [route EXCEPT ![r] = shortest_path(orig_node[r], dest_node[r])]
            /\ pc' = [pc EXCEPT ![r] = "stitch"]
            /\ UNCHANGED response
    /\ UNCHANGED <<shared, start_name, end_name, orig_point, dest_point,
                   orig_node, dest_node, route_coords>>

\* (variant: the loop takes the curve out of the edge data it reads,
\* edge_data.pop('geometry'))
Stitch_pop_geometry(r) ==
    /\ pc[r] = "stitch"
    /\ route_coords' = [route_coords EXCEPT ![r] = stitched(route[r])]
    /\ pc' = [pc EXCEPT ![r] = "map"]
    /\ G' = [G EXCEPT !.adj =
               [q \in DOMAIN G.adj |->
                  IF \E i \in 1..(Len(route[r]) - 1) : q = <<route[r][i], route[r][i + 1]>>
                  THEN [k \in DOMAIN G.adj[q] |->
                          IF k = 1 THEN [length |-> G.adj[q][k].length] ELSE G.adj[q][k]]
                  ELSE G.adj[q]]]
    /\ UNCHANGED <<buildings_gdf, entrances_gdf, buildings_proj, entrances_proj,
                   start_name, end_name, orig_point, dest_point,
                   orig_node, dest_node, route, response>>

\* 4. Extract Geometry
Stitch(r) ==
    /\ pc[r] = "stitch"
    /\ route_coords' = [route_coords EXCEPT ![r] = stitched(route[r])]
    /\ pc' = [pc EXCEPT ![r] = "map"]
    /\ UNCHANGED <<shared, start_name, end_name, orig_point, dest_point,
                   orig_node, dest_node, route, response>>

\* 5. Generate Map, return jsonify({'map_html': ...})
Respond(r) ==
    /\ pc[r] = "map"
    /\ response' = [response EXCEPT ![r] =
            [status |-> 200, error |-> "",
             map_html |-> create_map(route[r], orig_point[r], dest_point[r], route_coords[r])]]
    /\ pc' = [pc EXCEPT ![r] = "done"]
    /\ UNCHANGED <<shared, start_name, end_name, orig_point, dest_point,
                   orig_node, dest_node, route, route_coords>>

\* the response is sent; the worker takes the next request with fresh locals
Return(r) ==
    /\ pc[r] = "done"
    /\ pc' = [pc EXCEPT ![r] = "idle"]
    /\ start_name' = [start_name EXCEPT ![r] = ""]
    /\ end_name' = [end_name EXCEPT ![r] = ""]
    /\ orig_point' = [orig_point EXCEPT ![r] = NoPoint]
    /\ dest_point' = [dest_point EXCEPT ![r] = NoPoint]
    /\ orig_node' = [orig_node EXCEPT ![r] = NoNode]
    /\ dest_node' = [dest_node EXCEPT ![r] = NoNode]
    /\ route' = [route EXCEPT ![r] = <<>>]
    /\ route_coords' = [route_coords EXCEPT ![r] = <<>>]
    /\ response' = [response EXCEPT ![r] = NoResponse]
    /\ UNCHANGED shared

Next ==
    \/ \E r \in Requests : Receive(r)
    \/ \E r \in Requests : CheckSame(r)
    \/ \E r \in Requests : Locate(r)
    \/ \E r \in Requests : Snap(r)
    \/ \E r \in Requests : Path(r)
    \/ \E r \in Requests : Stitch(r)
    \/ \E r \in Requests : Respond(r)
    \/ \E r \in Requests : Return(r)

Spec == Init /\ [][Next]_vars

\* several requests served at once by the threaded server, over a line network
\* whose last street ranges over all its data
LastStreetNetworks ==
    {NetworkOf([p \in PairPool |->
                  IF p = LastPair THEN d
                  ELSE IF p = Chord THEN <<>> ELSE <<[length |-> 1]>>]) :
        d \in {<<>>} \cup KeyDictsUpTo(LastPair, 0)}

InitConc ==
    /\ InitShared(LastStreetNetworks, BaseEntranceTables)
    /\ InitLocals(1..NumRequests)

SpecConc == InitConc /\ [][Next]_vars

\* ---- properties -----------------------------------------------------------
Last(s) == s[Len(s)]
BuildingNames == {buildings_gdf[i].name : i \in DOMAIN buildings_gdf}
GeometryOf(name) == (CHOOSE i \in DOMAIN buildings_gdf : buildings_gdf[i].name = name)
MetresSq(name, i) ==
    distance_sq(to_crs_point(entrances_gdf[i].geometry),
                to_crs_polygon(buildings_gdf[GeometryOf(name)].geometry))

\* the points resolve() has returned and navigate() still holds
Resolved ==
    {<<start_name[r], orig_point[r]>> : r \in {q \in Requests : orig_point[q] # NoPoint}}
    \cup {<<end_name[r], dest_point[r]>> : r \in {q \in Requests : dest_point[q] # NoPoint}}

\* pt is the original coordinate of an entrance nearest to the building
IsNearestEntrance(name, pt) ==
    \E i \in DOMAIN entrances_gdf :
        /\ pt = entrances_gdf[i].geometry
        /\ \A j \in DOMAIN entrances_gdf : MetresSq(name, i) <= MetresSq(name, j)

\* C1 as stated, "within 60 m" read as a distance of at most 60 m: resolve(B)
\* is the nearest entrance when it lies within 60 m of B, else B's centroid.
C1_WithinSixty ==
    \A res \in Resolved :
        IF \E i \in DOMAIN entrances_gdf : MetresSq(res[1], i) <= 60 * 60
        THEN IsNearestEntrance(res[1], res[2])
        ELSE res[2] = centroid(buildings_gdf[GeometryOf(res[1])].geometry)

\* C1 amended: resolve(B) is the original coordinate of the nearest entrance
\* when that entrance is strictly less than 60 m from B's projected geometry,
\* and B's centroid when no entrance is closer than 60 m (an entrance at
\* exactly 60 m included) or there are no entrances.
C1_UnderSixty ==
    \A res \in Resolved :
        IF \E i \in DOMAIN entrances_gdf : MetresSq(res[1], i) < 60 * 60
        THEN IsNearestEntrance(res[1], res[2])
        ELSE res[2] = centroid(buildings_gdf[GeometryOf(res[1])].geometry)

\* the "Gym" scenario: entrances at 50 m and 70 m, the 50 m one is returned
C1_Witness ==
    \E r \in Requests :
        /\ pc[r] = "snap"
        /\ Len(entrances_gdf) = 2
        /\ {MetresSq(start_name[r], i) : i \in DOMAIN entrances_gdf} = {50 * 50, 70 * 70}
        /\ \E i \in DOMAIN entrances_gdf :
              MetresSq(start_name[r], i) = 50 * 50 /\ orig_point[r] = entrances_gdf[i].geometry

\* every path without a repeated node from o to d (with lengths >= 0 a walk
\* that repeats a node is never shorter than one that does not)
SimplePaths(o, d) ==
    {p \in UNION {[1..n -> DOMAIN G.nodes] : n \in 1..NumNodes} :
        /\ p[1] = o /\ p[Len(p)] = d
        /\ \A i, j \in DOMAIN p : i # j => p[i] # p[j]
        /\ \A i \in 1..(Len(p) - 1) :
              <<p[i], p[i + 1]>> \in DOMAIN G.adj /\ G.adj[<<p[i], p[i + 1]>>] # <<>>}
LeastLength(u, v) ==
    LET d == G.adj[<<u, v>>]
    IN CHOOSE w \in {d[k].length : k \in DOMAIN d} : \A k \in DOMAIN d : w <= d[k].length
RECURSIVE TotalLength(_)
TotalLength(p) ==
    IF Len(p) <= 1 THEN 0 ELSE LeastLength(p[1], p[2]) + TotalLength(Tail(p))

\* C2: the node sequence path search returns starts at the origin node, ends
\* at the destination node, follows existing edges and is no longer than any
\* other path between the two nodes.
C2_ShortestPath ==
    \A r \in Requests :
        route[r] # <<>> =>
            /\ route[r][1] = orig_node[r]
            /\ Last(route[r]) = dest_node[r]
            /\ route[r] \in SimplePaths(orig_node[r], dest_node[r])
            /\ \A p \in SimplePaths(orig_node[r], dest_node[r]) :
                  TotalLength(route[r]) <= TotalLength(p)

\* the detour over an intermediate node is taken although a direct but longer
\* edge joins the two endpoints
C2_Witness ==
    \E r \in Requests :
        /\ Len(route[r]) >= 3
        /\ <<orig_node[r], dest_node[r]>> \in SimplePaths(orig_node[r], dest_node[r])
        /\ TotalLength(route[r]) < LeastLength(orig_node[r], dest_node[r])

\* requests whose route geometry has been extracted
Stitched == {r \in Requests : pc[r] \in {"map", "done"} /\ route_coords[r] # <<>>}
Steps(r) == 1..(Len(route[r]) - 1)

\* the edge data read for step i of the route and what it added to route_coords
ReadData(r, i) == G.adj[<<route[r][i], route[r][i + 1]>>][1]
AddedLen(r, i) ==
    IF "geometry" \in DOMAIN ReadData(r, i) THEN Len(ReadData(r, i).geometry) ELSE 1
RECURSIVE AddedBefore(_, _)
AddedBefore(r, i) == IF i = 1 THEN 1 ELSE AddedBefore(r, i - 1) + AddedLen(r, i - 1)
AddedAt(r, i) ==
    SubSeq(route_coords[r], AddedBefore(r, i) + 1, AddedBefore(r, i) + AddedLen(r, i))

\* C3: for every step (u, v) of the route whose edge carries a curve, the
\* coordinates appended for the step run in the direction of travel: they
\* never lead from v's coordinate back to u's coordinate.
C3_CurveFollowsTravel ==
    \A r \in Stitched : \A i \in Steps(r) :
        "geometry" \in DOMAIN ReadData(r, i) =>
            ~ /\ AddedAt(r, i)[1] = node_coord(route[r][i + 1])
              /\ Last(AddedAt(r, i)) = node_coord(route[r][i])

\* the network of the scenario of spec section 8: streets 1 -- 2 (no curve)
\* and 2 -- 3 (curve of the single coordinate (10,10.5)), equal lengths
ScenarioNetwork ==
    /\ NumNodes = 3
    /\ G.adj[<<1, 3>>] = <<>>
    /\ G.adj[<<1, 2>>] = <<[length |-> 1]>>
    /\ G.adj[<<2, 3>>] = <<[length |-> 1, geometry |-> <<MidCoord(2, 3)>>]>>

\* C4: the coordinate sequence of a successful navigate starts at the
\* coordinate of the snapped origin node and ends at the coordinate of the
\* snapped destination node, whether or not the edges carry curves; in the
\* scenario of section 8 it is [(10,10), (10,11), (10,10.5), (10,12)].
C4_EndsAtSnappedNodes ==
    \A r \in Requests :
        pc[r] = "done" /\ response[r].status = 200 =>
            /\ response[r].map_html.polyline[1] = node_coord(orig_node[r])
            /\ Last(response[r].map_html.polyline) = node_coord(dest_node[r])
            /\ ScenarioNetwork /\ orig_node[r] = 1 /\ dest_node[r] = 3 =>
                  response[r].map_html.polyline =
                      <<<<20, 20>>, <<20, 22>>, <<20, 21>>, <<20, 24>>>>

\* nothing of the lookup, the snapping or the path search has happened
NothingLookedUp(r) ==
    /\ orig_point[r] = NoPoint /\ dest_point[r] = NoPoint
    /\ orig_node[r] = NoNode /\ dest_node[r] = NoNode
    /\ route[r] = <<>> /\ route_coords[r] = <<>>

\* C5: navigate(X, X) is answered with the same-endpoint rejection, a
\* non-success response carrying an error and no route, and the request never
\* reaches the building lookup, the snapping or the path search.
C5_SameEndpointRejected ==
    \A r \in Requests :
        pc[r] # "idle" /\ start_name[r] = end_name[r] =>
            /\ pc[r] \in {"check", "done"}
            /\ NothingLookedUp(r)
            /\ pc[r] = "done" =>
                  /\ response[r].status = 400
                  /\ response[r].error = "Start and Destination cannot be the same."
                  /\ response[r].map_html = NoMap

\* the rejection of navigate("Z", "Z"), "Z" naming no building
C5_Witness ==
    \E r \in Requests :
        /\ pc[r] = "done" /\ start_name[r] = end_name[r]
        /\ start_name[r] \notin BuildingNames
        /\ response[r].status = 400

\* C6: for distinct identifiers one of which names no building, navigate
\* answers with the lookup's error as a non-success response without a map or
\* coordinates, and neither snapping nor path search is performed.
C6_UnknownBuildingFails ==
    \A r \in Requests :
        /\ pc[r] # "idle" /\ start_name[r] # end_name[r]
        /\ (start_name[r] \notin BuildingNames \/ end_name[r] \notin BuildingNames)
        => /\ pc[r] \in {"check", "locate", "done"}
           /\ orig_node[r] = NoNode /\ dest_node[r] = NoNode
           /\ route[r] = <<>> /\ route_coords[r] = <<>>
           /\ pc[r] = "done" =>
                 /\ response[r].status = 500
                 /\ response[r].error = "IndexError"
                 /\ response[r].map_html = NoMap

\* the start is a building and has been resolved, the destination is unknown
C6_Witness ==
    \E r \in Requests :
        /\ pc[r] = "done"
        /\ start_name[r] \in BuildingNames /\ end_name[r] \notin BuildingNames
        /\ orig_point[r] # NoPoint
        /\ response[r].status = 500

\* C7: when the snapped destination node cannot be reached from the snapped
\* origin node, navigate answers with the no-path error as a non-success
\* response; nothing is stitched and no route is returned.
C7_NoPathFails ==
    \A r \in Requests :
        /\ orig_node[r] # NoNode
        /\ SimplePaths(orig_node[r], dest_node[r]) = {}
        => /\ pc[r] \in {"path", "done"}
           /\ route[r] = <<>> /\ route_coords[r] = <<>>
           /\ pc[r] = "done" =>
                 /\ response[r].status = 500
                 /\ response[r].error = "NetworkXNoPath"
                 /\ response[r].map_html = NoMap

\* two buildings snapped to different nodes of disconnected components
C7_Witness ==
    \E r \in Requests :
        /\ pc[r] = "done" /\ orig_node[r] # NoNode /\ orig_node[r] # dest_node[r]
        /\ SimplePaths(orig_node[r], dest_node[r]) = {}
        /\ response[r].status = 500

\* two distinct building names snapped to the same node
SameNode(r) ==
    /\ pc[r] = "done" /\ start_name[r] # end_name[r]
    /\ orig_node[r] # NoNode /\ orig_node[r] = dest_node[r]

\* C8 as stated: when two distinct building names snap to the same node,
\* navigate rejects the request instead of returning a successful route.
C8_SameNodeRejected ==
    \A r \in Requests : SameNode(r) => response[r].status # 200

\* C8 amended: when two distinct building names snap to the same node, path
\* search returns the one-node path and navigate answers successfully with
\* the coordinate sequence holding only that node's coordinate.
C8_SameNodeTrivialRoute ==
    \A r \in Requests :
        SameNode(r) =>
            /\ route[r] = <<orig_node[r]>>
            /\ response[r].status = 200 /\ response[r].error = ""
            /\ response[r].map_html.polyline = <<node_coord(orig_node[r])>>

C8_Witness ==
    \E r \in Requests : SameNode(r) /\ orig_point[r] = dest_point[r]

\* every finished request with the same two names carries the same answer
SameAnswers ==
    \A r1, r2 \in Requests :
        /\ pc[r1] = "done" /\ pc[r2] = "done"
        /\ start_name[r1] = start_name[r2] /\ end_name[r1] = end_name[r2]
        => /\ response[r1] = response[r2]
           /\ route_coords[r1] = route_coords[r2]

\* C9: no step of any request changes the network, the buildings or the
\* entrances, and requests with the same two names end with the same
\* coordinate sequence whatever ran before or alongside them.
C9_SharedDataUntouched == [][shared' = shared /\ SameAnswers']_vars

\* two requests for the same route have both been answered with a curve
C9_Witness ==
    \E r1, r2 \in Requests :
        /\ r1 # r2 /\ pc[r1] = "done" /\ pc[r2] = "done"
        /\ start_name[r1] = start_name[r2] /\ end_name[r1] = end_name[r2]
        /\ response[r1].status = 200 /\ Len(route_coords[r1]) > Len(route[r1])

\* C10: the edge whose data is read for a step (u, v) of the route is a
\* least-length edge among the parallel edges from u to v, the one path search
\* counted for the step.
C10_ReadsCostedEdge ==
    \A r \in Stitched : \A i \in Steps(r) :
        ReadData(r, i).length = LeastLength(route[r][i], route[r][i + 1])

====
